---- MODULE Spec2Model ----
(***************************************************************************)
(* Model of the sequence builder (CustomDataset), the tokenizer set-up     *)
(* (get_tokenizer) and the preference losses (DPOLoss and its variants).   *)
(*                                                                         *)
(* Texts are sequences of characters (small integers); the tokenizer maps  *)
(* one character to one token id.  Row indices are 0-based as in the       *)
(* source, so row idx of a table is element idx + 1 of a TLA+ sequence.    *)
(* Probabilities and random draws are in percent.  Log-probabilities are   *)
(* in tenths, beta in tenths, losses and rewards in hundredths.            *)
(***************************************************************************)
EXTENDS Integers, Sequences, FiniteSets, TLC

VARIABLES cfg, df, self, tokenizer, pc, error,
          idx, parent_idx, samples, input_ids, prompt_mask, sample,
          training, logps, loss_name, loss_cls, out,
          stop_word_ids, prompt_input_ids_len, call_input_ids, stop_result,
          workers

vars == <<cfg, df, self, tokenizer, pc, error,
          idx, parent_idx, samples, input_ids, prompt_mask, sample,
          training, logps, loss_name, loss_cls, out,
          stop_word_ids, prompt_input_ids_len, call_input_ids, stop_result,
          workers>>

dsVars == <<df, self, idx, parent_idx, samples, input_ids, prompt_mask, sample>>
lossVars == <<training, logps, loss_name, loss_cls, out>>
stopVars == <<stop_word_ids, prompt_input_ids_len, call_input_ids, stop_result>>

(***************************************************************************)
(* Bounds of the model.                                                    *)
(***************************************************************************)
MaxLength == 3
MaxLengthPrompt == 2
MaxLengthAnswer == 2
MaxSamples == 4
MaxBatch == 2
MaxTokenId == 2
MaxGenRows == 2
MaxRowLen == 3
NumWorkers == 2

(***************************************************************************)
(* Values of the program.                                                  *)
(***************************************************************************)
None == -1
IgnoreIndex == -100
EosTokenId == 2
PadTokenId == 0
EosChar == 0
CharOffset == 10

Min(a, b) == IF a < b THEN a ELSE b
Max(a, b) == IF a < b THEN b ELSE a

(***************************************************************************)
(* Python and torch sequence primitives.                                   *)
(***************************************************************************)
\* s[k:] for any integer k
PyFrom(s, k) ==
    LET start == IF k < 0 THEN Max(Len(s) + k, 0) ELSE Min(k, Len(s))
    IN  SubSeq(s, start + 1, Len(s))

\* s[:m] for any integer m
PyTo(s, m) ==
    LET stop == IF m < 0 THEN Max(Len(s) + m, 0) ELSE Min(m, Len(s))
    IN  SubSeq(s, 1, stop)

\* torch.full((n,), v)
Full(n, v) == [i \in 1..n |-> v]

\* slice assignment of a Python list: the slice is replaced whatever its size
SetTail_list(t, n, v) ==
    LET start == IF n = 0 THEN 0 ELSE Max(Len(t) - n, 0)
    IN  [ok |-> TRUE, val |-> SubSeq(t, 1, start) \o v]

\* t[-n:] = v ; the value must have the slice's size or size 1 (broadcast)
SetTail(t, n, v) ==
    LET start == IF n = 0 THEN 0 ELSE Max(Len(t) - n, 0)
        size  == Len(t) - start
    IN  IF Len(v) = size
        THEN [ok |-> TRUE, val |-> SubSeq(t, 1, start) \o v]
        ELSE IF Len(v) = 1
             THEN [ok |-> TRUE, val |-> SubSeq(t, 1, start) \o Full(size, v[1])]
             ELSE [ok |-> FALSE, val |-> t]

\* torch.cat of a list of 1-d tensors
RECURSIVE Cat(_)
Cat(ts) == IF ts = <<>> THEN <<>> ELSE Head(ts) \o Cat(Tail(ts))

\* list.append(x)
Insert0_append(l, x) == l \o <<x>>

\* list.insert(0, x)
Insert0(l, x) == <<x>> \o l

(***************************************************************************)
(* Tokenizer.                                                              *)
(***************************************************************************)
\* tokenizer(text, add_special_tokens=False)["input_ids"][0]
Tokenize(text) ==
    [i \in 1..Len(text) |->
        IF text[i] = EosChar THEN EosTokenId ELSE text[i] + CharOffset]

\* get_tokenizer: the pad token falls back to the eos token, and the mask
\* token id stored on the config is resolved by the if/elif chain
get_tokenizer(c) ==
    LET raw == c.llm_backbone
        pad == IF raw.pad_token_id = None THEN raw.eos_token_id
               ELSE raw.pad_token_id
        mask == IF raw.unk_token_id # None THEN raw.unk_token_id
                ELSE IF raw.mask_token_id # None THEN raw.mask_token_id
                ELSE IF raw.mask_token_id # None THEN pad
                ELSE raw.len - 1
    IN  [tokenizer |-> [raw EXCEPT !.pad_token_id = pad],
         cfg |-> [c EXCEPT !.tokenizer_mask_token_id = mask]]

(***************************************************************************)
(* CustomDataset: construction helpers.                                    *)
(***************************************************************************)
\* get_texts for a single prompt column
get_texts(d) == d.prompt

\* parse_prompt: prefix, prompt, optional eos token, separator
parse_prompt(c, prompt) ==
    c.text_prompt_start \o prompt
      \o (IF c.add_eos_token_to_prompt THEN <<EosChar>> ELSE <<>>)
      \o c.text_answer_separator

\* {v: k for k, v in enumerate(df["id"].values)}: the last row with an id wins
IdToIdx(ids) ==
    [v \in {ids[k] : k \in 1..Len(ids)} |->
        CHOOSE k \in 0..(Len(ids) - 1) :
            /\ ids[k + 1] = v
            /\ \A j \in 0..(Len(ids) - 1) : ids[j + 1] = v => j <= k]

\* df_id_to_idx.get(key, None)
DictGet(d, key) == IF key \in DOMAIN d THEN d[key] ELSE None

\* parent_ids set without looking for the id column
parent_chaining_noid(c, d) == c.parent_id_column # "None"

\* parent_ids is set only with a parent column configured and an id column
parent_chaining(c, d) == c.parent_id_column # "None" /\ "id" \in d.columns

\* the attributes __init__ sets after the answer column check
construct(c, d) ==
    LET chain == parent_chaining(c, d)
    IN  [prompts |-> [k \in 1..Len(get_texts(d)) |->
                         parse_prompt(c, get_texts(d)[k])],
         answers |-> d.answer,
         chaining |-> chain,
         parent_ids |-> IF chain THEN d.parent_id ELSE <<>>,
         df_id_to_idx |-> IF chain THEN IdToIdx(d.id) ELSE <<>>]

has_all_columns(c, d) == c.answer_column \in d.columns

\* no look at the values of the answer column
has_missing_values_never(c, d) == FALSE

has_missing_values(c, d) ==
    /\ has_all_columns(c, d)
    /\ \E k \in 1..Len(d.answer_isna) : d.answer_isna[k]

(***************************************************************************)
(* CustomDataset: one encoded segment.                                     *)
(***************************************************************************)
encode(text, max_length, truncation_side) ==
    IF truncation_side = "right"
    THEN PyTo(Tokenize(text), max_length)
    ELSE PyFrom(Tokenize(text), 0 - max_length)

get_sample(s, c, tk, i) ==
    LET prompt == s.prompts[i + 1]
        answer == s.answers[i + 1]
        prompt_encodings == encode(prompt, c.max_length_prompt, "left")
        max_length_answer == IF c.add_eos_token_to_answer
                             THEN c.max_length_answer - 1
                             ELSE c.max_length_answer
        answer_encodings == encode(answer, max_length_answer, "right")
    IN  <<prompt_encodings,
          IF c.add_eos_token_to_answer
          THEN answer_encodings \o <<tk.eos_token_id>>
          ELSE answer_encodings>>

(***************************************************************************)
(* CustomDataset: padding and the assembly of an item from the chain.      *)
(***************************************************************************)
\* padding on the right: the content is left-aligned
pad_tokens_rightpad(ids, attention_mask, max_length, pad_token_id) ==
    LET ids1 == PyTo(ids, max_length)
        att1 == PyTo(attention_mask, max_length)
    IN  [ok |-> TRUE,
         input_ids |-> ids1 \o Full(max_length - Len(ids1), pad_token_id),
         attention_mask |-> att1 \o Full(max_length - Len(ids1), 0)]

pad_tokens(ids, attention_mask, max_length, pad_token_id) ==
    LET cut  == max_length < Len(ids)
        ids1 == IF cut THEN PyFrom(ids, 0 - max_length) ELSE ids
        att1 == IF cut THEN PyFrom(attention_mask, 0 - max_length)
                ELSE attention_mask
        r1 == SetTail(Full(max_length, pad_token_id), Len(ids1), ids1)
        r2 == SetTail(Full(max_length, 0), Len(ids1), att1)
    IN  [ok |-> r1.ok /\ r2.ok, input_ids |-> r1.val, attention_mask |-> r2.val]

\* torch.cat([torch.cat(sample) for sample in samples])
FlatIds(ss) == Cat([k \in 1..Len(ss) |-> ss[k][1] \o ss[k][2]])

\* ones over the prompt of the last segment only
PromptMask_last(ss) ==
    Cat([k \in 1..Len(ss) |->
            Full(Len(ss[k][1]), k = Len(ss)) \o Full(Len(ss[k][2]), FALSE)])

\* ones over each prompt, zeros over each answer
PromptMask(ss) ==
    Cat([k \in 1..Len(ss) |->
            Full(Len(ss[k][1]), TRUE) \o Full(Len(ss[k][2]), FALSE)])

\* labels.masked_fill_(prompt_mask, -100)
MaskedFill(labels, mask, v) ==
    [i \in 1..Len(labels) |-> IF mask[i] THEN v ELSE labels[i]]

\* labels = input_ids.clone(), prompt masking, labels[-1] = eos
make_labels(c, tk, ids, mask) ==
    LET l0 == ids
        l1 == IF c.mask_prompt_labels THEN MaskedFill(l0, mask, IgnoreIndex)
              ELSE l0
    IN  IF c.add_eos_token_to_answer
        THEN [l1 EXCEPT ![Len(l1)] = tk.eos_token_id]
        ELSE l1

\* labels[:max_length], the leading labels
truncate_labels_head(c, ids, labels) ==
    IF c.max_length < Len(ids) THEN PyTo(labels, c.max_length) ELSE labels

\* if max_length < len(input_ids): labels = labels[-max_length:]
truncate_labels(c, ids, labels) ==
    IF c.max_length < Len(ids) THEN PyFrom(labels, 0 - c.max_length) ELSE labels

\* samples[-1][1] = torch.empty(0)
DropLastAnswer(ss) == [ss EXCEPT ![Len(ss)] = <<ss[Len(ss)][1], <<>>>>]

EmptySample ==
    [labels |-> <<>>, input_ids |-> <<>>, attention_mask |-> <<>>,
     prompt_input_ids |-> <<>>, prompt_attention_mask |-> <<>>]

\* the part of _read_data after the chain is complete
assemble(c, tk, ss) ==
    LET ids    == FlatIds(ss)
        mask   == PromptMask(ss)
        att    == Full(Len(ids), 1)
        l2     == make_labels(c, tk, ids, mask)
        labels == truncate_labels(c, ids, l2)
        lab    == SetTail(Full(c.max_length, IgnoreIndex), Len(labels), labels)
        full   == pad_tokens(ids, att, c.max_length, tk.pad_token_id)
        pids   == FlatIds(DropLastAnswer(ss))
        patt   == Full(Len(pids), 1)
        prm    == pad_tokens(pids, patt, c.max_length_prompt, tk.pad_token_id)
    IN  [ok |-> lab.ok /\ full.ok /\ prm.ok,
         sample |-> [labels |-> lab.val,
                     input_ids |-> full.input_ids,
                     attention_mask |-> full.attention_mask,
                     prompt_input_ids |-> prm.input_ids,
                     prompt_attention_mask |-> prm.attention_mask]]

(***************************************************************************)
(* Inputs: tables, tokenizers of the backbone, configurations.             *)
(***************************************************************************)
Texts ==
    [prompt |-> << <<11, 12, 13>>, <<21>>, <<31, 32>> >>,
     answer |-> << <<14, 15>>, <<24, 25, 26>>, <<34>> >>]

BlankTexts ==
    [prompt |-> << <<>>, <<21>>, <<>> >>,
     answer |-> << <<>>, <<>>, <<34>> >>]

Table(columns, ids, parents, texts, isna) ==
    [columns |-> columns, id |-> ids, parent_id |-> parents,
     prompt |-> texts.prompt, answer |-> texts.answer, answer_isna |-> isna]

AllColumns == {"id", "parent_id", "prompt", "answer"}
NoNa == <<FALSE, FALSE, FALSE>>

\* parent ids of the three rows; 0 is a missing parent, 9 an unknown id
ParentColumns ==
    { <<0, 1, 2>>, <<2, 3, 0>>, <<9, 1, 2>>, <<1, 1, 2>>, <<2, 1, 2>> }

DataFrames ==
    {Table(AllColumns, <<1, 2, 3>>, p, Texts, NoNa) : p \in ParentColumns}
    \cup {Table(AllColumns, <<1, 1, 3>>, <<0, 0, 1>>, Texts, NoNa),
          Table(AllColumns, <<1, 2, 3>>, <<0, 1, 2>>, BlankTexts, NoNa),
          Table(AllColumns \ {"id"}, <<>>, <<0, 1, 2>>, Texts, NoNa),
          Table(AllColumns \ {"answer"}, <<1, 2, 3>>, <<0, 1, 2>>, Texts, NoNa),
          Table(AllColumns, <<1, 2, 3>>, <<0, 1, 2>>, Texts,
                <<FALSE, TRUE, FALSE>>)}

Backbone(unk, mask, pad, eos, n) ==
    [unk_token_id |-> unk, mask_token_id |-> mask, pad_token_id |-> pad,
     eos_token_id |-> eos, len |-> n]

NoTokenizer == Backbone(None, None, None, None, 0)

\* the tokenizers the sequence builder is run with: no pad token, or its own
DatasetBackbones ==
    {Backbone(None, None, pad, EosTokenId, 5) : pad \in {None, PadTokenId}}

Probabilities == {0, 50}
Draws == {25, 75}

Config(mode, ml, mlp, mla, eos, maskp, pcol, skip, rnd, backbone) ==
    [mode |-> mode, max_length |-> ml, max_length_prompt |-> mlp,
     max_length_answer |-> mla, add_eos_token_to_answer |-> eos,
     mask_prompt_labels |-> maskp, parent_id_column |-> pcol,
     skip_parent_probability |-> skip, random_parent_probability |-> rnd,
     llm_backbone |-> backbone, answer_column |-> "answer",
     text_prompt_start |-> <<>>, add_eos_token_to_prompt |-> FALSE,
     text_answer_separator |-> <<>>, tokenizer_mask_token_id |-> None]

\* mode and the two augmentation probabilities; validation never reads them
Augmentations ==
    {<<"train", s, r>> : s \in Probabilities, r \in Probabilities}
    \cup {<<"validation", 50, 50>>}

Configs ==
    {Config(a[1], ml, mlp, mla, e, k, pcol, a[2], a[3], b) :
        a \in Augmentations, ml \in 0..MaxLength,
        mlp \in 0..MaxLengthPrompt, mla \in 0..MaxLengthAnswer,
        e \in BOOLEAN, k \in BOOLEAN, pcol \in {"None", "parent_id"},
        b \in DatasetBackbones}

NoSelf ==
    [prompts |-> <<>>, answers |-> <<>>, chaining |-> FALSE,
     parent_ids |-> <<>>, df_id_to_idx |-> <<>>]

NoLogps ==
    [policy_chosen |-> <<>>, policy_rejected |-> <<>>,
     reference_chosen |-> <<>>, reference_rejected |-> <<>>]

NoMean == [num |-> 0, den |-> 0]

NoOut == [losses |-> NoMean, chosen_rewards |-> NoMean, rejected_rewards |-> NoMean]

StoppingIdle ==
    /\ stop_word_ids = <<>>
    /\ prompt_input_ids_len = 0
    /\ call_input_ids = <<>>
    /\ stop_result = FALSE

\* the locals of one __getitem__ call before it starts
IdleWorker ==
    [pc |-> "ready", idx |-> None, parent_idx |-> None, samples |-> <<>>,
     sample |-> EmptySample]

WorkersIdle == workers = [w \in 1..NumWorkers |-> IdleWorker]

LossIdle ==
    /\ training = [beta |-> 0]
    /\ logps = NoLogps
    /\ loss_name = ""
    /\ loss_cls = ""
    /\ out = NoOut

Init ==
    /\ cfg \in Configs
    /\ df \in DataFrames
    /\ self = NoSelf
    /\ tokenizer = NoTokenizer
    /\ pc = "new"
    /\ error = ""
    /\ idx = None
    /\ parent_idx = None
    /\ samples = <<>>
    /\ input_ids = <<>>
    /\ prompt_mask = <<>>
    /\ sample = EmptySample
    /\ LossIdle
    /\ StoppingIdle
    /\ WorkersIdle

(***************************************************************************)
(* CustomDataset.__init__                                                  *)
(***************************************************************************)
ConstructRaise ==
    /\ pc = "new"
    /\ (~has_all_columns(cfg, df)) \/ has_missing_values(cfg, df)
    /\ pc' = "raised"
    /\ error' = "ValueError"
    /\ UNCHANGED <<cfg, tokenizer, dsVars, lossVars, stopVars, workers>>

Construct ==
    /\ pc = "new"
    /\ ~((~has_all_columns(cfg, df)) \/ has_missing_values(cfg, df))
    /\ LET g == get_tokenizer(cfg)
       IN  /\ tokenizer' = g.tokenizer
           /\ cfg' = g.cfg
           /\ self' = construct(g.cfg, df)
    /\ pc' = "ready"
    /\ UNCHANGED <<df, error, idx, parent_idx, samples, input_ids,
                   prompt_mask, sample, lossVars, stopVars, workers>>

\* len(self)
DatasetLen == Len(df.prompt)

(***************************************************************************)
(* CustomDataset.__getitem__ and _read_data                                *)
(***************************************************************************)
GetItem(i) ==
    /\ pc = "ready"
    /\ idx' = i
    /\ samples' = <<get_sample(self, cfg, tokenizer, i)>>
    /\ parent_idx' = IF self.chaining THEN i ELSE parent_idx
    /\ pc' = IF self.chaining THEN "walk" ELSE "random"
    /\ UNCHANGED <<cfg, df, self, tokenizer, error, input_ids, prompt_mask,
                   sample, lossVars, stopVars, workers>>

\* self.df_id_to_idx.get(self.parent_ids[parent_idx], None)
\* the lookup made from the target row at every turn of the loop
NextParent_self == DictGet(self.df_id_to_idx, self.parent_ids[idx + 1])

NextParent == DictGet(self.df_id_to_idx, self.parent_ids[parent_idx + 1])

\* the stochastic stop drawn in validation mode too
SkipParent_anymode(r) == r < cfg.skip_parent_probability

SkipParent(r) == cfg.mode = "train" /\ r < cfg.skip_parent_probability

WalkEnd ==
    /\ pc = "walk"
    /\ NextParent = None
    /\ parent_idx' = None
    /\ pc' = "random"
    /\ UNCHANGED <<cfg, df, self, tokenizer, error, idx, samples, input_ids,
                   prompt_mask, sample, lossVars, stopVars, workers>>

\* continue: the loop goes on with the next parent
BreakTarget_continue == "walk"

\* break: control leaves the while loop
BreakTarget == "random"

WalkBreak ==
    /\ pc = "walk"
    /\ NextParent # None
    /\ \E r \in Draws : SkipParent(r)
    /\ parent_idx' = NextParent
    /\ pc' = BreakTarget
    /\ UNCHANGED <<cfg, df, self, tokenizer, error, idx, samples, input_ids,
                   prompt_mask, sample, lossVars, stopVars, workers>>

WalkPrepend ==
    /\ pc = "walk"
    /\ NextParent # None
    /\ \E r \in Draws : ~SkipParent(r)
    /\ Len(samples) < MaxSamples
    /\ parent_idx' = NextParent
    /\ samples' = Insert0(samples, get_sample(self, cfg, tokenizer, NextParent))
    /\ UNCHANGED <<cfg, df, self, tokenizer, pc, error, idx, input_ids,
                   prompt_mask, sample, lossVars, stopVars, workers>>

RandomParent(r) == cfg.mode = "train" /\ r < cfg.random_parent_probability

RandomParentInsert ==
    /\ pc = "random"
    /\ \E r \in Draws : RandomParent(r)
    /\ \E rnd_idx \in 0..(DatasetLen - 1) :
          samples' = Insert0(samples, get_sample(self, cfg, tokenizer, rnd_idx))
    /\ pc' = "assemble"
    /\ UNCHANGED <<cfg, df, self, tokenizer, error, idx, parent_idx, input_ids,
                   prompt_mask, sample, lossVars, stopVars, workers>>

RandomParentSkip ==
    /\ pc = "random"
    /\ \E r \in Draws : ~RandomParent(r)
    /\ pc' = "assemble"
    /\ UNCHANGED <<cfg, df, self, tokenizer, error, idx, parent_idx, samples,
                   input_ids, prompt_mask, sample, lossVars, stopVars, workers>>

ReadDataReturn ==
    /\ pc = "assemble"
    /\ assemble(cfg, tokenizer, samples).ok
    /\ input_ids' = FlatIds(samples)
    /\ prompt_mask' = PromptMask(samples)
    /\ samples' = DropLastAnswer(samples)
    /\ sample' = assemble(cfg, tokenizer, samples).sample
    /\ pc' = "returned"
    /\ UNCHANGED <<cfg, df, self, tokenizer, error, idx, parent_idx, lossVars, stopVars, workers>>

ReadDataRaise ==
    /\ pc = "assemble"
    /\ ~assemble(cfg, tokenizer, samples).ok
    /\ input_ids' = FlatIds(samples)
    /\ prompt_mask' = PromptMask(samples)
    /\ pc' = "raised"
    /\ error' = "RuntimeError"
    /\ UNCHANGED <<cfg, df, self, tokenizer, idx, parent_idx, samples, sample,
                   lossVars, stopVars, workers>>

Next ==
    \/ ConstructRaise
    \/ Construct
    \/ \E i \in 0..(DatasetLen - 1) : GetItem(i)
    \/ WalkEnd
    \/ WalkBreak
    \/ WalkPrepend
    \/ RandomParentInsert
    \/ RandomParentSkip
    \/ ReadDataReturn
    \/ ReadDataRaise

Spec == Init /\ [][Next]_vars

(***************************************************************************)
(* get_tokenizer on its own, for every tokenizer of a backbone.            *)
(***************************************************************************)
VocabSizes == {MaxTokenId + 2, MaxTokenId + 3}
OptionalIds == {None} \cup 0..MaxTokenId

TokenizerConfigs ==
    {Config("train", 1, 1, 1, FALSE, FALSE, "None", 0, 0,
            Backbone(u, m, p, e, n)) :
        u \in OptionalIds, m \in OptionalIds, p \in OptionalIds,
        e \in {None, EosTokenId}, n \in VocabSizes}

NoTable == Table({}, <<>>, <<>>, [prompt |-> <<>>, answer |-> <<>>], <<>>)

DatasetIdle ==
    /\ df = NoTable
    /\ self = NoSelf
    /\ error = ""
    /\ idx = None
    /\ parent_idx = None
    /\ samples = <<>>
    /\ input_ids = <<>>
    /\ prompt_mask = <<>>
    /\ sample = EmptySample

InitTokenizer ==
    /\ cfg \in TokenizerConfigs
    /\ tokenizer = NoTokenizer
    /\ pc = "new"
    /\ DatasetIdle
    /\ LossIdle
    /\ StoppingIdle
    /\ WorkersIdle

GetTokenizer ==
    /\ pc = "new"
    /\ tokenizer' = get_tokenizer(cfg).tokenizer
    /\ cfg' = get_tokenizer(cfg).cfg
    /\ pc' = "tokenizer"
    /\ UNCHANGED <<dsVars, error, lossVars, stopVars, workers>>

NextTokenizer == GetTokenizer

SpecTokenizer == InitTokenizer /\ [][NextTokenizer]_vars

(***************************************************************************)
(* Preference losses.                                                      *)
(***************************************************************************)
RECURSIVE SumSeq(_)
SumSeq(v) == IF v = <<>> THEN 0 ELSE Head(v) + SumSeq(Tail(v))

\* tensor.mean() as an exact fraction
Mean(v) == [num |-> SumSeq(v), den |-> Len(v)]

\* 100 * -logsigmoid(x / 100), rounded to the nearest integer
NegLogSigmoidTable ==
    { <<-100, 131>>, <<-50, 97>>, <<-40, 91>>, <<-20, 80>>, <<-10, 74>>,
      <<0, 69>>, <<10, 64>>, <<20, 60>>, <<40, 51>>, <<50, 47>>, <<100, 31>> }

NegLogSigmoid(x) == (CHOOSE e \in NegLogSigmoidTable : e[1] = x)[2]

label_smoothing == 0

\* get_losses of the three classes; logits in tenths, result in hundredths
get_losses(cls, beta, logits) ==
    [i \in 1..Len(logits) |->
        CASE cls = "HingeLoss" -> Max(0, 100 - beta * logits[i])
          [] cls = "IPOLoss" ->
                (logits[i] - (50 \div beta)) * (logits[i] - (50 \div beta))
          [] OTHER ->
                NegLogSigmoid(beta * logits[i]) * (1 - label_smoothing)
                + NegLogSigmoid(0 - beta * logits[i]) * label_smoothing]

\* pi_logratios + ref_logratios
dpo_logits_sum(lp) ==
    [i \in 1..Len(lp.policy_chosen) |->
        (lp.policy_chosen[i] - lp.policy_rejected[i])
        + (lp.reference_chosen[i] - lp.reference_rejected[i])]

\* pi_logratios - ref_logratios
dpo_logits(lp) ==
    [i \in 1..Len(lp.policy_chosen) |->
        (lp.policy_chosen[i] - lp.policy_rejected[i])
        - (lp.reference_chosen[i] - lp.reference_rejected[i])]

\* beta * (reference - policy)
rewards_swapped(beta, policy, reference) ==
    [i \in 1..Len(policy) |-> beta * (reference[i] - policy[i])]

\* beta * (policy - reference).detach()
rewards(beta, policy, reference) ==
    [i \in 1..Len(policy) |-> beta * (policy[i] - reference[i])]

\* DPOLoss.forward, shared by the three classes
forward(cls, beta, lp) ==
    [losses |-> Mean(get_losses(cls, beta, dpo_logits(lp))),
     chosen_rewards |->
        Mean(rewards(beta, lp.policy_chosen, lp.reference_chosen)),
     rejected_rewards |->
        Mean(rewards(beta, lp.policy_rejected, lp.reference_rejected))]

_losses ==
    [DPOLoss |-> "DPOLoss", HingeLoss |-> "HingeLoss", IPOLoss |-> "IPOLoss"]

\* cls._losses.get(name)
Losses_get_nodefault(name) ==
    IF name \in DOMAIN _losses THEN _losses[name] ELSE "None"

\* cls._losses.get(name, DPOLoss)
Losses_get(name) ==
    IF name \in DOMAIN _losses THEN _losses[name] ELSE "DPOLoss"

LossNames == {"DPOLoss", "HingeLoss", "IPOLoss", "KTOLoss", "hingeloss", ""}

Betas == {1, 2, 5}
PolicyLogps == {-10, -20}
ReferenceLogps == {-15, -25}

Vectors(n, values) == [1..n -> values]

Batches ==
    UNION {
        [policy_chosen : Vectors(n, PolicyLogps),
         policy_rejected : Vectors(n, PolicyLogps),
         reference_chosen : Vectors(n, ReferenceLogps),
         reference_rejected : Vectors(n, ReferenceLogps)] : n \in 1..MaxBatch }

InitLoss ==
    /\ cfg = Config("train", 1, 1, 1, FALSE, FALSE, "None", 0, 0, NoTokenizer)
    /\ tokenizer = NoTokenizer
    /\ pc = "loss_new"
    /\ DatasetIdle
    /\ StoppingIdle
    /\ WorkersIdle
    /\ training \in [beta : Betas]
    /\ logps \in Batches
    /\ loss_name = ""
    /\ loss_cls = ""
    /\ out = NoOut

LossesGet(name) ==
    /\ pc = "loss_new"
    /\ loss_name' = name
    /\ loss_cls' = Losses_get(name)
    /\ pc' = "loss_ready"
    /\ UNCHANGED <<cfg, tokenizer, dsVars, error, training, logps, out, stopVars, workers>>

Forward ==
    /\ pc = "loss_ready"
    /\ out' = forward(loss_cls, training.beta, logps)
    /\ pc' = "loss_done"
    /\ UNCHANGED <<cfg, tokenizer, dsVars, error, training, logps, loss_name,
                   loss_cls, stopVars, workers>>

NextLoss ==
    \/ \E name \in LossNames : LossesGet(name)
    \/ Forward

SpecLoss == InitLoss /\ [][NextLoss]_vars

(***************************************************************************)
(* TokenStoppingCriteria.  A stop word is a tensor of ids: dim 1 for a     *)
(* vector, dim 0 for a single scalar id held in ids[1].                    *)
(***************************************************************************)
\* torch.all(row[i : i + len(vector)] == vector) for the 0-based offset i
MatchAt(row, vector, i) ==
    \A j \in 1..Len(vector) : row[i + j] = vector[j]

\* number of rows of the matrix that hold the vector as a contiguous run
get_num_vector_found_in_matrix_rows(vector, matrix) ==
    Cardinality({r \in 1..Len(matrix) :
        \E i \in 0..(Len(matrix[r]) - Len(vector)) :
            MatchAt(matrix[r], vector, i)})

should_stop(generated_ids, stop_word_id) ==
    IF stop_word_id.dim = 0
    THEN \A r \in 1..Len(generated_ids) :
            \E j \in 1..Len(generated_ids[r]) :
                generated_ids[r][j] = stop_word_id.ids[1]
    ELSE get_num_vector_found_in_matrix_rows(stop_word_id.ids, generated_ids)
            = Len(generated_ids)

\* input_ids[:, self.prompt_input_ids_len :]
GeneratedIds(ids, n) == [r \in 1..Len(ids) |-> PyFrom(ids[r], n)]

\* __call__: True at the first stop word that should_stop accepts
stopping_call(words, n, ids) ==
    \E k \in 1..Len(words) : should_stop(GeneratedIds(ids, n), words[k])

GenTokens == {1, 2}

StopWords ==
    {[dim |-> 1, ids |-> <<1>>], [dim |-> 1, ids |-> <<2>>],
     [dim |-> 1, ids |-> <<1, 2>>], [dim |-> 0, ids |-> <<2>>]}

StopWordLists == UNION {[1..n -> StopWords] : n \in 0..2}

Matrices ==
    UNION {[1..b -> [1..n -> GenTokens]] : b \in 1..MaxGenRows, n \in 1..MaxRowLen}

InitStopping ==
    /\ cfg = Config("train", 1, 1, 1, FALSE, FALSE, "None", 0, 0, NoTokenizer)
    /\ tokenizer = NoTokenizer
    /\ pc = "criteria"
    /\ DatasetIdle
    /\ LossIdle
    /\ WorkersIdle
    /\ stop_word_ids \in StopWordLists
    /\ prompt_input_ids_len \in 0..1
    /\ call_input_ids \in Matrices
    /\ stop_result = FALSE

StoppingCall ==
    /\ pc = "criteria"
    /\ stop_result' =
          stopping_call(stop_word_ids, prompt_input_ids_len, call_input_ids)
    /\ pc' = "called"
    /\ UNCHANGED <<cfg, tokenizer, dsVars, error, lossVars, stop_word_ids,
                   prompt_input_ids_len, call_input_ids, workers>>

NextStopping == StoppingCall

SpecStopping == InitStopping /\ [][NextStopping]_vars

(***************************************************************************)
(* Concurrent __getitem__ calls of data-loading workers on one dataset.    *)
(* self, cfg, tokenizer and df are shared; each call has its own locals.   *)
(***************************************************************************)
Workers == 1..NumWorkers

WorkerConfigs ==
    {Config(m, 2, 2, 2, TRUE, TRUE, "parent_id", 50, 50,
            Backbone(None, None, None, EosTokenId, 5)) :
        m \in {"train", "validation"}}

\* the first two rows of a table's texts
FirstTwo(texts) ==
    [prompt |-> SubSeq(texts.prompt, 1, 2), answer |-> SubSeq(texts.answer, 1, 2)]

\* two-row tables: a chain, the reversed chain, and a chain with blank texts
WorkerTables ==
    {Table(AllColumns, <<1, 2>>, <<0, 1>>, FirstTwo(Texts), <<FALSE, FALSE>>),
     Table(AllColumns, <<1, 2>>, <<2, 0>>, FirstTwo(Texts), <<FALSE, FALSE>>),
     Table(AllColumns, <<1, 2>>, <<0, 1>>, FirstTwo(BlankTexts), <<FALSE, FALSE>>)}

InitWorkers ==
    /\ \E c \in WorkerConfigs, d \in WorkerTables :
          /\ cfg = get_tokenizer(c).cfg
          /\ tokenizer = get_tokenizer(c).tokenizer
          /\ df = d
          /\ self = construct(get_tokenizer(c).cfg, d)
    /\ pc = "serving"
    /\ error = ""
    /\ idx = None
    /\ parent_idx = None
    /\ samples = <<>>
    /\ input_ids = <<>>
    /\ prompt_mask = <<>>
    /\ sample = EmptySample
    /\ LossIdle
    /\ StoppingIdle
    /\ WorkersIdle

sharedVars == <<cfg, df, self, tokenizer, pc, error, idx, parent_idx, samples,
                input_ids, prompt_mask, sample, lossVars, stopVars>>

\* the parent lookup made with the cursor of the first worker that has one
WNextParent_shared(w) ==
    DictGet(self.df_id_to_idx,
            self.parent_ids[(IF workers[1].parent_idx # None
                             THEN workers[1].parent_idx
                             ELSE workers[w].parent_idx) + 1])

\* the parent lookup of worker w, made with its own parent_idx
WNextParent(w) ==
    DictGet(self.df_id_to_idx, self.parent_ids[workers[w].parent_idx + 1])

WGetItem(w, i) ==
    /\ workers[w].pc = "ready"
    /\ workers' = [workers EXCEPT ![w] =
          [pc |-> IF self.chaining THEN "walk" ELSE "random",
           idx |-> i,
           parent_idx |-> IF self.chaining THEN i ELSE None,
           samples |-> <<get_sample(self, cfg, tokenizer, i)>>,
           sample |-> EmptySample]]
    /\ UNCHANGED sharedVars

WWalkEnd(w) ==
    /\ workers[w].pc = "walk"
    /\ WNextParent(w) = None
    /\ workers' = [workers EXCEPT ![w].parent_idx = None, ![w].pc = "random"]
    /\ UNCHANGED sharedVars

WWalkBreak(w) ==
    /\ workers[w].pc = "walk"
    /\ WNextParent(w) # None
    /\ \E r \in Draws : SkipParent(r)
    /\ workers' = [workers EXCEPT ![w].parent_idx = WNextParent(w),
                                  ![w].pc = BreakTarget]
    /\ UNCHANGED sharedVars

WWalkPrepend(w) ==
    /\ workers[w].pc = "walk"
    /\ WNextParent(w) # None
    /\ \E r \in Draws : ~SkipParent(r)
    /\ Len(workers[w].samples) < MaxSamples
    /\ workers' = [workers EXCEPT
          ![w].parent_idx = WNextParent(w),
          ![w].samples = Insert0(workers[w].samples,
                                 get_sample(self, cfg, tokenizer, WNextParent(w)))]
    /\ UNCHANGED sharedVars

WRandomParentInsert(w) ==
    /\ workers[w].pc = "random"
    /\ \E r \in Draws : RandomParent(r)
    /\ \E rnd_idx \in 0..(DatasetLen - 1) :
          workers' = [workers EXCEPT
              ![w].samples = Insert0(workers[w].samples,
                                     get_sample(self, cfg, tokenizer, rnd_idx)),
              ![w].pc = "assemble"]
    /\ UNCHANGED sharedVars

WRandomParentSkip(w) ==
    /\ workers[w].pc = "random"
    /\ \E r \in Draws : ~RandomParent(r)
    /\ workers' = [workers EXCEPT ![w].pc = "assemble"]
    /\ UNCHANGED sharedVars

WReadDataReturn(w) ==
    /\ workers[w].pc = "assemble"
    /\ assemble(cfg, tokenizer, workers[w].samples).ok
    /\ workers' = [workers EXCEPT
          ![w].samples = DropLastAnswer(workers[w].samples),
          ![w].sample = assemble(cfg, tokenizer, workers[w].samples).sample,
          ![w].pc = "returned"]
    /\ UNCHANGED sharedVars

WReadDataRaise(w) ==
    /\ workers[w].pc = "assemble"
    /\ ~assemble(cfg, tokenizer, workers[w].samples).ok
    /\ workers' = [workers EXCEPT ![w].pc = "raised"]
    /\ UNCHANGED sharedVars

NextWorkers ==
    \E w \in Workers :
        \/ \E i \in 0..(DatasetLen - 1) : WGetItem(w, i)
        \/ WWalkEnd(w)
        \/ WWalkBreak(w)
        \/ WWalkPrepend(w)
        \/ WRandomParentInsert(w)
        \/ WRandomParentSkip(w)
        \/ WReadDataReturn(w)
        \/ WReadDataRaise(w)

SpecWorkers == InitWorkers /\ [][NextWorkers]_vars

(***************************************************************************)
(* Properties of the sequence builder.                                     *)
(***************************************************************************)
Returned == pc = "returned"

\* the segments of the chain that carry position j of the flat sequence
SegmentOffset(ss, k) == Len(FlatIds(SubSeq(ss, 1, k - 1)))

IsPromptPosition(ss, j) ==
    \E k \in 1..Len(ss) :
        /\ j > SegmentOffset(ss, k)
        /\ j <= SegmentOffset(ss, k) + Len(ss[k][1])

\* the row a parent pointer of row i leads to, from the table
ParentRow(i) == DictGet(IdToIdx(df.id), df.parent_id[i + 1])

\* rows from the earliest reachable ancestor down to row i (n bounds the depth)
RECURSIVE Lineage(_, _)
Lineage(i, n) ==
    IF n = 0 THEN <<>>
    ELSE (IF ParentRow(i) = None THEN <<>> ELSE Lineage(ParentRow(i), n - 1))
         \o <<i>>

\* prompt ids + answer ids of one row
EncodeRow(i) ==
    get_sample(self, cfg, tokenizer, i)[1] \o get_sample(self, cfg, tokenizer, i)[2]

NoRandomness ==
    \/ cfg.mode = "validation"
    \/ /\ cfg.skip_parent_probability = 0
       /\ cfg.random_parent_probability = 0

\* C1: every returned item has input_ids, attention_mask and labels of
\* length max_length and prompt_input_ids, prompt_attention_mask of length
\* max_length_prompt.
C1_FixedLengths ==
    Returned =>
        /\ Len(sample.input_ids) = cfg.max_length
        /\ Len(sample.attention_mask) = cfg.max_length
        /\ Len(sample.labels) = cfg.max_length
        /\ Len(sample.prompt_input_ids) = cfg.max_length_prompt
        /\ Len(sample.prompt_attention_mask) = cfg.max_length_prompt

C1_Witness ==
    /\ Returned
    /\ Len(samples) >= 2
    /\ Len(input_ids) > cfg.max_length
    /\ cfg.max_length >= 1
    /\ cfg.max_length_prompt >= 1

\* C2: with parent chaining and neither stochastic stop nor random parent,
\* the flat id sequence is the concatenation of the segments of the
\* ancestors, earliest first, followed by the target row's segment.
C2_ChainOrder ==
    (Returned /\ self.chaining /\ NoRandomness) =>
        LET rows == Lineage(idx, MaxSamples + 1)
        IN  input_ids = Cat([k \in 1..Len(rows) |-> EncodeRow(rows[k])])

C2_Witness ==
    /\ Returned
    /\ self.chaining
    /\ cfg.mode = "train"
    /\ cfg.skip_parent_probability = 0
    /\ cfg.random_parent_probability = 0
    /\ df.id = <<1, 2, 3>>
    /\ df.parent_id = <<0, 1, 2>>
    /\ idx = 2
    /\ input_ids = EncodeRow(0) \o EncodeRow(1) \o EncodeRow(2)
    /\ EncodeRow(0) # <<>>
    /\ EncodeRow(1) # <<>>

\* C3: with mask_prompt_labels, every prompt position of any segment that
\* survives truncation has label -100.
C3_PromptLabelsIgnored ==
    (Returned /\ cfg.mask_prompt_labels) =>
        \A i \in 1..Len(sample.labels) :
            LET j == Len(input_ids) - cfg.max_length + i
            IN  (j >= 1 /\ IsPromptPosition(samples, j))
                    => sample.labels[i] = IgnoreIndex

C3_Witness ==
    /\ Returned
    /\ cfg.mask_prompt_labels
    /\ Len(samples) >= 2
    /\ Len(input_ids) > cfg.max_length
    /\ \E i \in 1..Len(sample.labels) :
          /\ IsPromptPosition(samples, Len(input_ids) - cfg.max_length + i)
          /\ Len(input_ids) - cfg.max_length + i
                <= SegmentOffset(samples, Len(samples))
    /\ \E i \in 1..Len(sample.labels) : sample.labels[i] # IgnoreIndex

\* C4: with add_eos_token_to_answer, the last label position of a returned
\* item holds the eos id.
C4_LastLabelEos ==
    (Returned /\ cfg.add_eos_token_to_answer /\ cfg.max_length >= 1) =>
        sample.labels[cfg.max_length] = tokenizer.eos_token_id

C4_Witness ==
    /\ Returned
    /\ cfg.add_eos_token_to_answer
    /\ cfg.mask_prompt_labels
    /\ tokenizer.pad_token_id = tokenizer.eos_token_id
    /\ Len(samples) >= 2
    /\ Len(input_ids) > cfg.max_length
    /\ cfg.max_length >= 2

NoIdColumn == cfg.parent_id_column # "None" /\ "id" \notin df.columns

\* the chains a dataset without parent chaining can build for row i
UnchainedSamples(i) ==
    { <<get_sample(self, cfg, tokenizer, i)>> }
    \cup (IF cfg.mode = "train"
          THEN { <<get_sample(self, cfg, tokenizer, r),
                   get_sample(self, cfg, tokenizer, i)>> :
                    r \in 0..(DatasetLen - 1) }
          ELSE {})

\* C5: a parent column without an id column raises no error at
\* construction, leaves parent chaining off, and every item is the item of
\* the same dataset with parent_id_column "None": no ancestor is prepended.
C5_NoIdColumnDegrades ==
    (NoIdColumn /\ has_all_columns(cfg, df) /\ ~has_missing_values(cfg, df)) =>
        /\ error # "ValueError"
        /\ pc # "new" =>
              /\ ~self.chaining
              /\ self = construct([cfg EXCEPT !.parent_id_column = "None"], df)
        /\ pc # "walk"
        /\ Returned =>
              \E ss \in UnchainedSamples(idx) :
                  /\ samples = DropLastAnswer(ss)
                  /\ sample =
                        assemble([cfg EXCEPT !.parent_id_column = "None"],
                                 tokenizer, ss).sample

C5_Witness ==
    /\ NoIdColumn
    /\ Returned
    /\ idx = 2
    /\ df.parent_id = <<0, 1, 2>>
    /\ Len(samples) = 1

\* C6: construction raises ValueError exactly when the answer column is
\* absent or holds a missing value, and then nothing of the dataset is built.
C6_AnswerColumnCheck ==
    /\ pc # "new" =>
          (error = "ValueError" <=>
              (\/ cfg.answer_column \notin df.columns
               \/ \E k \in 1..Len(df.answer_isna) : df.answer_isna[k]))
    /\ error = "ValueError" =>
          /\ pc = "raised"
          /\ self = NoSelf
          /\ tokenizer = NoTokenizer
          /\ cfg.tokenizer_mask_token_id = None
          /\ idx = None
          /\ sample = EmptySample

C6_Witness ==
    /\ error = "ValueError"
    /\ cfg.answer_column \in df.columns
    /\ \E k \in 1..Len(df.answer_isna) : df.answer_isna[k]

\* number of parent hops from row i until a lookup fails, counted up to n
RECURSIVE Depth(_, _)
Depth(i, n) ==
    IF n = 0 \/ ParentRow(i) = None THEN 0
    ELSE 1 + Depth(ParentRow(i), n - 1)

\* the parent pointers reachable from row i run into a cycle
HasCycle(i) == Depth(i, DatasetLen) = DatasetLen

Walking == self.chaining /\ idx # None

\* C13 as stated: with a cycle reachable from the target row the walk never
\* ends, in either mode and for any skip-parent probability.
C13_CycleNeverEnds ==
    (Walking /\ HasCycle(idx)) => pc = "walk"

\* C13 amended: with a cycle reachable from the target row the parent lookup
\* never fails, so the walk is left only by the stochastic stop of train
\* mode with a positive skip-parent probability.
C13_CycleEndsOnlyBySkip ==
    (Walking /\ HasCycle(idx)) =>
        /\ pc = "walk" => NextParent # None
        /\ pc # "walk" =>
              /\ cfg.mode = "train"
              /\ cfg.skip_parent_probability > 0
              /\ parent_idx # None

C13_Witness ==
    /\ Walking
    /\ HasCycle(idx)
    /\ pc = "walk"
    /\ cfg.mode = "validation"
    /\ Len(samples) = MaxSamples

\* C14: without a cycle the walk ends: every turn of the loop moves one
\* ancestor closer to the root, it stops at the first absent parent id with
\* all d ancestors encoded, and the chain has at most d + 1 segments plus at
\* most one random parent.
C14_AcyclicWalkBounded ==
    (Walking /\ ~HasCycle(idx)) =>
        LET d == Depth(idx, DatasetLen)
        IN  /\ pc = "walk" =>
                  /\ parent_idx # None
                  /\ Len(samples) + Depth(parent_idx, DatasetLen) = d + 1
                  /\ Len(samples) < MaxSamples
            /\ pc = "random" =>
                  /\ Len(samples) <= d + 1
                  /\ parent_idx = None => Len(samples) = d + 1
            /\ pc \in {"assemble", "returned", "raised"} =>
                  /\ Len(samples) <= d + 2
                  /\ cfg.mode = "validation" => Len(samples) = d + 1

C14_Witness ==
    /\ Walking
    /\ ~HasCycle(idx)
    /\ Depth(idx, DatasetLen) = 2
    /\ pc = "random"
    /\ parent_idx = None
    /\ Len(samples) = 3
    /\ cfg.mode = "train"

\* rows p^k(i), ..., p(i), i for a row i with at least k ancestors
RECURSIVE NearestRows(_, _)
NearestRows(i, k) ==
    IF k = 0 THEN <<i>> ELSE NearestRows(ParentRow(i), k - 1) \o <<i>>

Segments(rows) ==
    [j \in 1..Len(rows) |-> get_sample(self, cfg, tokenizer, rows[j])]

\* parent hops the dataset can make from row i: none without parent chaining
ChainDepth(i, n) == IF self.chaining THEN Depth(i, n) ELSE 0

\* the numbers of nearest ancestors a chain for row i may carry
Hops(i) ==
    {k \in 0..(MaxSamples - 1) :
        /\ ChainDepth(i, k) = k
        /\ cfg.mode = "validation" => ChainDepth(i, k + 1) = k}

RandomPrefixes ==
    {<<>>}
    \cup (IF cfg.mode = "train"
          THEN {<<get_sample(self, cfg, tokenizer, r)>> :
                    r \in 0..(DatasetLen - 1)}
          ELSE {})

ChainShapes(i) ==
    {pre \o Segments(NearestRows(i, k)) : pre \in RandomPrefixes, k \in Hops(i)}

\* C15: the assembled chain is at most one random-parent segment, then a
\* contiguous run of the target's nearest ancestors, oldest first, then the
\* target's segment; validation mode has no random parent and no early stop.
C15_ChainShape ==
    /\ pc = "assemble" => samples \in ChainShapes(idx)
    /\ Returned => \E ss \in ChainShapes(idx) : samples = DropLastAnswer(ss)

C15_Witness ==
    /\ pc = "assemble"
    /\ cfg.mode = "train"
    /\ self.chaining
    /\ Depth(idx, DatasetLen) = 2
    /\ parent_idx # None
    /\ Len(samples) = 2
    /\ samples[1] = get_sample(self, cfg, tokenizer, idx)
    /\ samples[1] # get_sample(self, cfg, tokenizer, ParentRow(idx))

\* C16: the target's segment is the last min(n, max_length_prompt) prompt
\* tokens and the first min(m, budget) answer tokens plus eos when set, so
\* neither part exceeds its limit.
C16_SegmentTruncation ==
    pc \in {"walk", "random", "assemble"} =>
        LET seg    == samples[Len(samples)]
            ptoks  == Tokenize(self.prompts[idx + 1])
            atoks  == Tokenize(self.answers[idx + 1])
            n      == Len(ptoks)
            m      == Len(atoks)
            budget == IF cfg.add_eos_token_to_answer
                      THEN cfg.max_length_answer - 1
                      ELSE cfg.max_length_answer
        IN  /\ seg[1] = SubSeq(ptoks, n - Min(n, cfg.max_length_prompt) + 1, n)
            /\ seg[2] = SubSeq(atoks, 1, Min(m, budget))
                        \o (IF cfg.add_eos_token_to_answer
                            THEN <<tokenizer.eos_token_id>> ELSE <<>>)
            /\ Len(seg[1]) <= cfg.max_length_prompt
            /\ Len(seg[2]) <= cfg.max_length_answer

\* the label of position j of the flat sequence before truncation
FlatLabel(j) ==
    IF cfg.add_eos_token_to_answer /\ j = Len(input_ids)
    THEN tokenizer.eos_token_id
    ELSE IF cfg.mask_prompt_labels /\ IsPromptPosition(samples, j)
         THEN IgnoreIndex
         ELSE input_ids[j]

\* C17: a returned item is left-padded: pad id, attention 0 and label -100
\* in front, then the trailing min(L, max_length) tokens in order with
\* attention 1 and their labels; a label is the input id or -100.
C17_LeftPaddedTail ==
    Returned =>
        LET L == Len(input_ids)
            M == cfg.max_length
            k == Min(L, M)
        IN  \A i \in 1..Len(sample.input_ids) :
                IF i <= M - k
                THEN /\ sample.input_ids[i] = tokenizer.pad_token_id
                     /\ sample.attention_mask[i] = 0
                     /\ sample.labels[i] = IgnoreIndex
                ELSE /\ sample.input_ids[i] = input_ids[L - M + i]
                     /\ sample.attention_mask[i] = 1
                     /\ sample.labels[i] = FlatLabel(L - M + i)
                     /\ sample.labels[i] \in {sample.input_ids[i], IgnoreIndex}

C17_Witness ==
    /\ Returned
    /\ Len(samples) >= 2
    /\ cfg.max_length >= 2
    /\ Len(input_ids) > cfg.max_length
    /\ cfg.mask_prompt_labels
    /\ \E i \in 1..Len(sample.labels) : sample.labels[i] = IgnoreIndex
    /\ \E i \in 1..Len(sample.labels) : sample.labels[i] = sample.input_ids[i]

\* the chain without the answer of the target row
PromptView == FlatIds(samples)

\* C18: prompt_input_ids is the left-padded tail of the earlier segments
\* followed by the target's prompt ids, the target's encoded prompt stands
\* in full at its right end, and prompt_attention_mask marks the content.
C18_PromptView ==
    Returned =>
        LET P  == Len(PromptView)
            MP == cfg.max_length_prompt
            k  == Min(P, MP)
            tp == samples[Len(samples)][1]
        IN  /\ \A i \in 1..Len(sample.prompt_input_ids) :
                  IF i <= MP - k
                  THEN /\ sample.prompt_input_ids[i] = tokenizer.pad_token_id
                       /\ sample.prompt_attention_mask[i] = 0
                  ELSE /\ sample.prompt_input_ids[i] = PromptView[P - MP + i]
                       /\ sample.prompt_attention_mask[i] = 1
            /\ samples[Len(samples)][2] = <<>>
            /\ Len(tp) <= Len(sample.prompt_input_ids)
            /\ SubSeq(sample.prompt_input_ids,
                      Len(sample.prompt_input_ids) - Len(tp) + 1,
                      Len(sample.prompt_input_ids)) = tp

\* the item of row i built by a call that runs alone, without randomness
SoloItem(i) ==
    assemble(cfg, tokenizer, Segments(Lineage(i, MaxSamples + 1))).sample

\* C12: no step of any interleaving of __getitem__ calls changes the shared
\* dataset state, a step changes the locals of one call only, and in
\* validation mode a returned item is the item of the call run alone.
C12_CallsShareNothingMutable ==
    [][/\ self' = self
       /\ df' = df
       /\ cfg' = cfg
       /\ tokenizer' = tokenizer
       /\ \A w, v \in Workers :
             w # v => (workers'[w] = workers[w] \/ workers'[v] = workers[v])
       /\ \A w \in Workers :
             (cfg.mode = "validation" /\ workers'[w].pc = "returned")
                 => workers'[w].sample = SoloItem(workers'[w].idx)]_vars

C12_Witness ==
    /\ cfg.mode = "validation"
    /\ workers[1].pc = "returned"
    /\ workers[1].idx = 1
    /\ Len(workers[1].samples) = 2
    /\ workers[2].pc = "walk"
    /\ workers[2].idx = 1
    /\ Len(workers[2].samples) = 1
    /\ self = construct(cfg, df)

(***************************************************************************)
(* Properties of the loss factory and the losses.                          *)
(***************************************************************************)
LossChosen == pc \in {"loss_ready", "loss_done"}
LossDone == pc = "loss_done"

\* C7: Losses.get returns the named class for the three known names and
\* DPOLoss for every other name, never an absent value.
C7_LossFactoryDefault ==
    LossChosen =>
        /\ loss_name = "DPOLoss" => loss_cls = "DPOLoss"
        /\ loss_name = "HingeLoss" => loss_cls = "HingeLoss"
        /\ loss_name = "IPOLoss" => loss_cls = "IPOLoss"
        /\ loss_name \notin {"DPOLoss", "HingeLoss", "IPOLoss"}
              => loss_cls = "DPOLoss"
        /\ loss_cls # "None"

C7_Witness ==
    /\ LossDone
    /\ loss_name = "KTOLoss"
    /\ loss_cls = "DPOLoss"

\* the reward margin of example i, in tenths
Margin(i) ==
    logps.policy_chosen[i] - logps.policy_rejected[i]
    - logps.reference_chosen[i] + logps.reference_rejected[i]

\* the loss of one example with margin m under each variant, in hundredths
VariantLoss(m) ==
    CASE loss_cls = "HingeLoss" ->
            IF 100 - training.beta * m > 0 THEN 100 - training.beta * m ELSE 0
      [] loss_cls = "IPOLoss" ->
            m * m - 2 * m * (50 \div training.beta)
            + (50 \div training.beta) * (50 \div training.beta)
      [] OTHER -> NegLogSigmoid(training.beta * m)

BatchSize == Len(logps.policy_chosen)

SpecExample ==
    /\ logps = [policy_chosen |-> <<-10>>, policy_rejected |-> <<-20>>,
                reference_chosen |-> <<-15>>, reference_rejected |-> <<-25>>]
    /\ training.beta = 1

\* C8: the loss is the unweighted mean over the batch of the variant's loss
\* of the margin; the spec's example gives margin 0, hinge loss 1.0 and
\* squared loss 25.0.
C8_LossIsMeanOfVariant ==
    LossDone =>
        /\ out.losses.den = BatchSize
        /\ out.losses.num = SumSeq([i \in 1..BatchSize |-> VariantLoss(Margin(i))])
        /\ SpecExample =>
              /\ Margin(1) = 0
              /\ loss_cls = "HingeLoss" => out.losses = [num |-> 100, den |-> 1]
              /\ loss_cls = "IPOLoss" => out.losses = [num |-> 2500, den |-> 1]

C8_Witness ==
    /\ LossDone
    /\ SpecExample
    /\ loss_cls = "IPOLoss"
    /\ out.losses = [num |-> 2500, den |-> 1]

\* C9 as stated: both rewards are non-negative for every batch.
C9_RewardsNonNegative ==
    LossDone =>
        /\ out.chosen_rewards.num >= 0
        /\ out.rejected_rewards.num >= 0

\* C9 amended: the chosen (rejected) reward is the mean of
\* beta * (policy - reference) over the chosen (rejected) log-probabilities,
\* and it is non-negative exactly when the policy log-probabilities sum to at
\* least the reference ones.
C9_RewardsFollowSign ==
    LossDone =>
        /\ out.chosen_rewards.den = BatchSize
        /\ out.rejected_rewards.den = BatchSize
        /\ out.chosen_rewards.num =
              training.beta * (SumSeq(logps.policy_chosen)
                               - SumSeq(logps.reference_chosen))
        /\ out.rejected_rewards.num =
              training.beta * (SumSeq(logps.policy_rejected)
                               - SumSeq(logps.reference_rejected))
        /\ out.chosen_rewards.num >= 0
              <=> SumSeq(logps.policy_chosen) >= SumSeq(logps.reference_chosen)
        /\ out.rejected_rewards.num >= 0
              <=> SumSeq(logps.policy_rejected)
                    >= SumSeq(logps.reference_rejected)

C9_Witness ==
    /\ LossDone
    /\ out.chosen_rewards.num < 0
    /\ out.rejected_rewards.num > 0

(***************************************************************************)
(* Properties of get_tokenizer.                                            *)
(***************************************************************************)
\* C10: the mask token id is the unknown-token id, else the mask-token id,
\* else the pad-token id, else the last id of the vocabulary.
C10_MaskTokenFallback ==
    pc = "tokenizer" =>
        cfg.tokenizer_mask_token_id =
            IF tokenizer.unk_token_id # None THEN tokenizer.unk_token_id
            ELSE IF tokenizer.mask_token_id # None THEN tokenizer.mask_token_id
            ELSE IF tokenizer.pad_token_id # None THEN tokenizer.pad_token_id
            ELSE tokenizer.len - 1

(***************************************************************************)
(* Properties of TokenStoppingCriteria.                                    *)
(***************************************************************************)
\* the generated part of row r holds the stop word as a contiguous run
RowHasWord(r, w) ==
    LET gen == SubSeq(call_input_ids[r], prompt_input_ids_len + 1,
                      Len(call_input_ids[r]))
    IN  \E a \in 1..(Len(gen) + 1) :
            /\ a + Len(w.ids) - 1 <= Len(gen)
            /\ SubSeq(gen, a, a + Len(w.ids) - 1) = w.ids

\* C11: __call__ returns True exactly when every generated row holds at
\* least one of the stop words, rows being free to hold different ones.
C11_StopWhenEachRowHasAStopWord ==
    pc = "called" =>
        (stop_result <=>
            \A r \in 1..Len(call_input_ids) :
                \E k \in 1..Len(stop_word_ids) : RowHasWord(r, stop_word_ids[k]))

====
